---- MODULE Spec2Model ----
(***************************************************************************)
(* A model of fit (src/main.rs): parse the bucket capacity, discover the   *)
(* files of the source directory, sort them by size, pack them first-fit   *)
(* into capacity-bounded buckets and hard-link (or report) every bucket.   *)
(*                                                                         *)
(* Strings are sequences of one-character strings, paths are sequences of  *)
(* components; the component "/" at the head of a path is the root, so a   *)
(* path is absolute exactly when it starts with it.  Sizes are naturals:   *)
(* the sums the program forms stay far below 2^64 within the bounds.       *)
(* Lines printed to stdout (the --verbose lines, the dry-run report, the   *)
(* logged errors) change no state the program reads back and are left out. *)
(***************************************************************************)
EXTENDS Integers, Sequences, FiniteSets, TLC

(* ------------------------------ bounds --------------------------------- *)
MaxFiles == 3
MaxSize == 4
MaxLen == 2

(* ------------------------- inputs of one run --------------------------- *)
Digits == <<"0", "1", "2", "3", "4", "5", "6", "7", "8", "9">>
Chars == {"0", "3", " "}
DefaultCapacity == <<"1", "5", "M">>
CapacityArgs ==
    UNION {[1..n -> Chars] : n \in 0..MaxLen} \cup {DefaultCapacity}
SourceDirs == {<<"src">>, <<"/", "srv">>}
LinkDestination == <<"part">>
FileNames == <<"a", "b", "c", "d", "e", "f">>

VARIABLES
    pc,               \* position in main
    capacityArg,      \* the text given to --bucket-capacity (or the default)
    source_directory, \* cfg.source_directory
    dry_run,          \* cfg.dry_run
    bucket_capacity,  \* cfg.bucket_capacity
    discovered,       \* the files in the order collect_files pushed them
    files,            \* the vector main sorts and packs
    buckets,          \* the vector of buckets, in creation order
    count,            \* the counter captured by numbered_dir_namer
    fileIdx,          \* the outer loop's position in files
    bucketIdx,        \* the inner loop's position in buckets
    added,            \* the flag of the packing loop
    outBucket,        \* the output loop's position in buckets
    outFile,          \* Bucket::link's position in contents
    dirs,             \* directories created so far
    links,            \* hard links created so far (their targets)
    attempts          \* every hard_link call made: bucket, file, source, target

vars == <<pc, capacityArg, source_directory, dry_run, bucket_capacity,
          discovered, files, buckets, count, fileIdx, bucketIdx, added,
          outBucket, outFile, dirs, links, attempts>>

(* --------------------------- HumanNumber ------------------------------- *)
IsDigit(c) == \E d \in 1..10 : Digits[d] = c

DigitValue(c) == (CHOOSE d \in 1..10 : Digits[d] = c) - 1

RECURSIVE DecimalValue(_)
DecimalValue(s) ==
    IF s = <<>> THEN 0
    ELSE 10 * DecimalValue(SubSeq(s, 1, Len(s) - 1)) + DigitValue(s[Len(s)])

\* str::parse::<f64> over the characters of Chars and DefaultCapacity: only
\* a non-empty run of digits is a number.
ParsesAsNumber(s) == s # <<>> /\ \A i \in 1..Len(s) : IsDigit(s[i])

RECURSIVE trim_start(_)
trim_start(s) ==
    IF s # <<>> /\ s[1] = " " THEN trim_start(Tail(s)) ELSE s

RECURSIVE trim_end(_)
trim_end(s) ==
    IF s # <<>> /\ s[Len(s)] = " " THEN trim_end(SubSeq(s, 1, Len(s) - 1))
    ELSE s

trim(s) == trim_end(trim_start(s))

Multiplier(suffix) ==
    CASE suffix = <<"k">> -> 1024
      [] suffix = <<"K">> -> 1000
      [] suffix = <<"m">> -> 1024 * 1024
      [] suffix = <<"M">> -> 1000 * 1000
      [] suffix = <<"g">> -> 1024 * 1024 * 1024
      [] suffix = <<"G">> -> 1000 * 1000 * 1000
      [] suffix = <<>> -> 1
      [] OTHER -> 0

KnownSuffixes == {<<"k">>, <<"K">>, <<"m">>, <<"M">>, <<"g">>, <<"G">>, <<>>}

\* The result is Ok(value), Err, or a panic of split_at, which is handed a
\* position computed from the untrimmed length.
from_str(s) ==
    IF s = <<>> THEN [kind |-> "Err", value |-> 0]
    ELSE LET t == trim(s)
             mid == Len(s) - 1
         IN  IF mid > Len(t) THEN [kind |-> "Panic", value |-> 0]
             ELSE LET number == SubSeq(t, 1, mid)
                      suffix == SubSeq(t, mid + 1, Len(t))
                  IN  IF ~ParsesAsNumber(number)
                      THEN [kind |-> "Err", value |-> 0]
                      ELSE IF suffix \notin KnownSuffixes
                      THEN [kind |-> "Err", value |-> 0]
                      ELSE [kind |-> "Ok",
                            value |-> DecimalValue(number) * Multiplier(suffix)]

(* ------------------------------ paths ---------------------------------- *)
IsAbsolute(p) == p # <<>> /\ p[1] = "/"

\* PathBuf::push: an absolute argument replaces the path.
push(base, p) == IF IsAbsolute(p) THEN p ELSE base \o p

parent(p) == SubSeq(p, 1, Len(p) - 1)

IsPrefix(p, q) == Len(p) <= Len(q) /\ SubSeq(q, 1, Len(p)) = p

Ancestors(p) == {SubSeq(p, 1, n) : n \in 1..Len(p)}

Pad3(n) ==
    IF n < 10 THEN "00" \o ToString(n)
    ELSE IF n < 100 THEN "0" \o ToString(n)
    ELSE ToString(n)

\* The closure of numbered_dir_namer, applied to the counter's new value.
numbered_dir_namer(prefix, n) == prefix \o <<Pad3(n)>>

(* ------------------------------ Bucket --------------------------------- *)
\* Variants of Bucket::add with one slip each.
add_ignoring_file_size(b, file) ==
    IF b.size <= b.capacity
    THEN [ok |-> TRUE,
          bucket |-> [b EXCEPT !.contents = Append(@, file),
                               !.size = @ + file.size]]
    ELSE [ok |-> FALSE, bucket |-> b]

add_without_size_update(b, file) ==
    IF b.size + file.size <= b.capacity
    THEN [ok |-> TRUE, bucket |-> [b EXCEPT !.contents = Append(@, file)]]
    ELSE [ok |-> FALSE, bucket |-> b]

add_without_push(b, file) ==
    IF b.size + file.size <= b.capacity
    THEN [ok |-> TRUE, bucket |-> [b EXCEPT !.size = @ + file.size]]
    ELSE [ok |-> FALSE, bucket |-> b]

add_strict(b, file) ==
    IF b.size + file.size < b.capacity
    THEN [ok |-> TRUE,
          bucket |-> [b EXCEPT !.contents = Append(@, file),
                               !.size = @ + file.size]]
    ELSE [ok |-> FALSE, bucket |-> b]

\* Bucket::add: the verdict and the bucket as the call leaves it.
add(b, file) ==
    IF b.size + file.size <= b.capacity
    THEN [ok |-> TRUE,
          bucket |-> [b EXCEPT !.contents = Append(@, file),
                               !.size = @ + file.size]]
    ELSE [ok |-> FALSE, bucket |-> b]

\* The struct literal main pushes when no bucket took the file.
new_bucket(path, capacity, file) ==
    [path |-> path, capacity |-> capacity, size |-> file.size,
     contents |-> <<file>>]

(* ------------------------------- sort ---------------------------------- *)
RECURSIVE insert_desc(_, _)
insert_desc(sorted, file) ==
    IF sorted = <<>> THEN <<file>>
    ELSE IF sorted[1].size >= file.size
         THEN <<sorted[1]>> \o insert_desc(Tail(sorted), file)
         ELSE <<file>> \o sorted

\* Variants of the sort: none at all, and one that puts a file before the
\* files of its own size.
sort_by_nothing(fs) == fs

RECURSIVE insert_desc_before_ties(_, _)
insert_desc_before_ties(sorted, file) ==
    IF sorted = <<>> THEN <<file>>
    ELSE IF sorted[1].size > file.size
         THEN <<sorted[1]>> \o insert_desc_before_ties(Tail(sorted), file)
         ELSE <<file>> \o sorted

RECURSIVE sort_by_unstable(_)
sort_by_unstable(fs) ==
    IF fs = <<>> THEN <<>>
    ELSE insert_desc_before_ties(sort_by_unstable(SubSeq(fs, 1, Len(fs) - 1)),
                                 fs[Len(fs)])

\* files.sort_by(|a, b| b.size.cmp(&a.size)): stable, largest first.
RECURSIVE sort_by(_)
sort_by(fs) ==
    IF fs = <<>> THEN <<>>
    ELSE insert_desc(sort_by(SubSeq(fs, 1, Len(fs) - 1)), fs[Len(fs)])

(* ------------------------------- main ---------------------------------- *)
Init ==
    /\ pc = "config"
    /\ capacityArg \in CapacityArgs
    /\ source_directory \in SourceDirs
    /\ dry_run \in BOOLEAN
    /\ bucket_capacity = 0
    /\ discovered = <<>>
    /\ files = <<>>
    /\ buckets = <<>>
    /\ count = 0
    /\ fileIdx = 1
    /\ bucketIdx = 1
    /\ added = FALSE
    /\ outBucket = 1
    /\ outFile = 1
    /\ dirs = {}
    /\ links = {}
    /\ attempts = {}

\* make_config: the capacity is from_str(..).unwrap().
MakeConfig ==
    /\ pc = "config"
    /\ LET r == from_str(capacityArg)
       IN  IF r.kind = "Ok"
           THEN pc' = "collect" /\ bucket_capacity' = r.value
           ELSE pc' = "panic" /\ UNCHANGED bucket_capacity
    /\ UNCHANGED <<capacityArg, source_directory, dry_run, discovered, files,
                   buckets, count, fileIdx, bucketIdx, added, outBucket,
                   outFile, dirs, links, attempts>>

\* collect_files: one FileInfo per regular file, its path the directory
\* joined with the entry's name.
Collect ==
    /\ pc = "collect"
    /\ \E n \in 0..MaxFiles : \E sizes \in [1..n -> 0..MaxSize] :
          files' = [i \in 1..n |->
                      [path |-> source_directory \o <<FileNames[i]>>,
                       size |-> sizes[i]]]
    /\ discovered' = files'
    /\ pc' = "validate"
    /\ UNCHANGED <<capacityArg, source_directory, dry_run, bucket_capacity,
                   buckets, count, fileIdx, bucketIdx, added, outBucket,
                   outFile, dirs, links, attempts>>

\* collect_files fails with an I/O error, which main propagates.
CollectFails ==
    /\ pc = "collect"
    /\ pc' = "error"
    /\ UNCHANGED <<capacityArg, source_directory, dry_run, bucket_capacity,
                   discovered, files, buckets, count, fileIdx, bucketIdx,
                   added, outBucket, outFile, dirs, links, attempts>>

\* The empty check, the sort and the check of the largest file.
Validate ==
    /\ pc = "validate"
    /\ IF Len(files) < 1
       THEN pc' = "error" /\ UNCHANGED files
       ELSE /\ files' = sort_by(files)
            /\ pc' = IF files'[1].size > bucket_capacity
                     THEN "error" ELSE "scan"
    /\ UNCHANGED <<capacityArg, source_directory, dry_run, bucket_capacity,
                   discovered, buckets, count, fileIdx, bucketIdx, added,
                   outBucket, outFile, dirs, links, attempts>>

\* The head of the next iteration of `for file in &files`.
Advance ==
    /\ fileIdx' = fileIdx + 1
    /\ bucketIdx' = 1
    /\ pc' = IF fileIdx + 1 > Len(files) THEN "output" ELSE "scan"

\* One iteration of `for bucket in &mut buckets`.
TryAdd ==
    /\ pc = "scan"
    /\ bucketIdx <= Len(buckets)
    /\ LET r == add(buckets[bucketIdx], files[fileIdx])
       IN  /\ buckets' = [buckets EXCEPT ![bucketIdx] = r.bucket]
           /\ added' = r.ok
           /\ IF r.ok
              THEN pc' = "after" /\ UNCHANGED bucketIdx
              ELSE pc' = "scan" /\ bucketIdx' = bucketIdx + 1
    /\ UNCHANGED <<capacityArg, source_directory, dry_run, bucket_capacity,
                   discovered, files, count, fileIdx, outBucket, outFile,
                   dirs, links, attempts>>

\* The scan ended without a break: `if !added` pushes a new bucket.
NewBucket ==
    /\ pc = "scan"
    /\ bucketIdx > Len(buckets)
    /\ ~added
    /\ count' = count + 1
    /\ buckets' = Append(buckets,
                         new_bucket(numbered_dir_namer(LinkDestination, count'),
                                    bucket_capacity, files[fileIdx]))
    /\ added' = FALSE
    /\ Advance
    /\ UNCHANGED <<capacityArg, source_directory, dry_run, bucket_capacity,
                   discovered, files, outBucket, outFile, dirs, links,
                   attempts>>

\* The scan ended by break: `if !added` is skipped.
NextFile ==
    /\ pc = "after"
    /\ added
    /\ added' = FALSE
    /\ Advance
    /\ UNCHANGED <<capacityArg, source_directory, dry_run, bucket_capacity,
                   discovered, files, buckets, count, outBucket, outFile,
                   dirs, links, attempts>>

\* `for bucket in buckets` moves on; after the last bucket main returns Ok.
NextBucket ==
    /\ outBucket' = outBucket + 1
    /\ outFile' = 1
    /\ pc' = IF outBucket + 1 > Len(buckets) THEN "done" ELSE "output"

\* --dry-run: the bucket is printed; its header divides by the capacity.
DryRunBucket ==
    /\ pc = "output"
    /\ dry_run
    /\ outBucket <= Len(buckets)
    /\ IF buckets[outBucket].capacity = 0
       THEN pc' = "panic" /\ UNCHANGED <<outBucket, outFile>>
       ELSE NextBucket
    /\ UNCHANGED <<capacityArg, source_directory, dry_run, bucket_capacity,
                   discovered, files, buckets, count, fileIdx, bucketIdx,
                   added, dirs, links, attempts>>

\* What the file system may answer: fs::exists(dir) is Ok(true), Ok(false)
\* or Err; create_dir_all and hard_link succeed or fail.  A directory this
\* run created or read exists, and a link onto an existing file fails.
ExistsAnswers(dir) ==
    IF dir \in dirs \cup Ancestors(source_directory)
    THEN {"true", "err"} ELSE {"true", "false", "err"}

HardLinkAnswers(target) ==
    IF target \in links \/ \E i \in 1..Len(files) : files[i].path = target
    THEN {FALSE} ELSE {TRUE, FALSE}

\* One iteration of `for file in self.contents` of Bucket::link, in main's
\* `if let Err(e) = bucket.link(..)`.
LinkFile ==
    /\ pc = "output"
    /\ ~dry_run
    /\ outBucket <= Len(buckets)
    /\ outFile <= Len(buckets[outBucket].contents)
    /\ LET bucket == buckets[outBucket]
           file == bucket.contents[outFile]
           target == push(bucket.path, file.path)
           dir == parent(target)
       IN  \E ex \in ExistsAnswers(dir), created \in BOOLEAN,
              linked \in HardLinkAnswers(target) :
              IF ex = "false" /\ ~created
              THEN \* .expect(..) panics
                   /\ pc' = "panic"
                   /\ UNCHANGED <<outBucket, outFile, dirs, links, attempts>>
              ELSE /\ dirs' = IF ex = "false" THEN dirs \cup Ancestors(dir)
                              ELSE dirs
                   /\ attempts' = attempts \cup
                         {[bucket |-> outBucket, index |-> outFile,
                           source |-> file.path, target |-> target,
                           ok |-> linked]}
                   /\ links' = IF linked THEN links \cup {target} ELSE links
                   /\ IF linked /\ outFile < Len(bucket.contents)
                      THEN /\ outFile' = outFile + 1
                           /\ UNCHANGED <<pc, outBucket>>
                      ELSE NextBucket
    /\ UNCHANGED <<capacityArg, source_directory, dry_run, bucket_capacity,
                   discovered, files, buckets, count, fileIdx, bucketIdx,
                   added>>

Next ==
    \/ MakeConfig
    \/ Collect
    \/ CollectFails
    \/ Validate
    \/ TryAdd
    \/ NewBucket
    \/ NextFile
    \/ DryRunBucket
    \/ LinkFile

Spec == Init /\ [][Next]_vars

(* ---------------------------- properties -------------------------------- *)
RECURSIVE SumSizes(_)
SumSizes(fs) ==
    IF fs = <<>> THEN 0 ELSE fs[1].size + SumSizes(Tail(fs))

RECURSIVE SumBuckets(_)
SumBuckets(bs) ==
    IF bs = <<>> THEN 0 ELSE bs[1].size + SumBuckets(Tail(bs))

Collected == pc \notin {"config", "collect"}
Packing == pc \in {"scan", "after"}
Packed == pc \in {"output", "done"} \/ (pc = "panic" /\ buckets # <<>>)
AllFit == \A i \in 1..Len(discovered) : discovered[i].size <= bucket_capacity
Oversized == \E i \in 1..Len(discovered) : discovered[i].size > bucket_capacity

\* The places <<k, j>> of the buckets' contents that hold the file f.
Places(f) ==
    {p \in UNION {{<<k, j>> : j \in 1..Len(buckets[k].contents)} :
                     k \in 1..Len(buckets)} :
        buckets[p[1]].contents[p[2]] = f}

PositionIn(fs, f) == CHOOSE i \in 1..Len(fs) : fs[i] = f

\* C1: when the file list is non-empty and every file fits the capacity,
\* every bucket's size is at most the configured capacity, in every state of
\* the packing loop and after it.
C1_BucketsWithinCapacity ==
    (Collected /\ discovered # <<>> /\ AllFit) =>
        \A k \in 1..Len(buckets) :
            /\ buckets[k].size <= bucket_capacity
            /\ buckets[k].capacity = bucket_capacity

C1_Witness ==
    /\ pc = "after"
    /\ Len(buckets) >= 2
    /\ buckets[bucketIdx].size = bucket_capacity
    /\ Len(buckets[bucketIdx].contents) >= 2

\* C2: when packing is complete every input file is in exactly one place of
\* exactly one bucket, the k-th bucket of the list is the k-th created, and
\* the buckets' sizes add up to the input files' sizes.
C2_ExactPartition ==
    Packed =>
        /\ \A i \in 1..Len(discovered) : Cardinality(Places(discovered[i])) = 1
        /\ \A k \in 1..Len(buckets) :
              \A j \in 1..Len(buckets[k].contents) :
                 \E i \in 1..Len(discovered) :
                    discovered[i] = buckets[k].contents[j]
        /\ \A k \in 1..Len(buckets) :
              buckets[k].path = numbered_dir_namer(LinkDestination, k)
        /\ SumBuckets(buckets) = SumSizes(discovered)

C2_Witness ==
    /\ pc = "done"
    /\ Len(buckets) >= 2
    /\ Len(discovered) = MaxFiles
    /\ SumSizes(discovered) > bucket_capacity

\* C3: a discovered file larger than the capacity, wherever it was
\* discovered, ends the run with an error; no bucket, directory or hard link
\* is ever created and no hard link attempted.
C3_OversizedFileAborts ==
    (Collected /\ Oversized) =>
        /\ pc \in {"validate", "error"}
        /\ buckets = <<>>
        /\ count = 0
        /\ dirs = {}
        /\ links = {}
        /\ attempts = {}

C3_Witness ==
    /\ pc = "error"
    /\ Len(discovered) >= 2
    /\ discovered[1].size <= bucket_capacity
    /\ discovered[Len(discovered)].size > bucket_capacity

\* C4: a call of Bucket::add returns true exactly when size + file.size <=
\* capacity; then the file is appended at the end of contents and size grows
\* by file.size; otherwise the bucket is left as it was.
C4_AddContract ==
    [][(pc = "scan" /\ bucketIdx <= Len(buckets)) =>
          LET b == buckets[bucketIdx]
              f == files[fileIdx]
              after == buckets'[bucketIdx]
          IN  /\ added' <=> (b.size + f.size <= b.capacity)
              /\ added' =>
                    /\ after.contents = Append(b.contents, f)
                    /\ after.size = b.size + f.size
                    /\ after.capacity = b.capacity
                    /\ after.path = b.path
              /\ ~added' => after = b
              /\ \A k \in 1..Len(buckets) :
                    k # bucketIdx => buckets'[k] = buckets[k]]_vars

C4_Witness ==
    /\ pc = "after"
    /\ added
    /\ bucketIdx >= 2
    /\ buckets[1].size + files[fileIdx].size > bucket_capacity

\* C5: the files are packed largest first, files of one size in discovery
\* order; a file goes to the lowest-numbered bucket with room for it, and a
\* new bucket is made only when no bucket has room, holding that one file.
SortedStable ==
    /\ Len(files) = Len(discovered)
    /\ \A i \in 1..Len(discovered) : \E j \in 1..Len(files) :
          files[j] = discovered[i]
    /\ \A i, j \in 1..Len(files) :
          i < j =>
             /\ files[i].size >= files[j].size
             /\ files[i].size = files[j].size =>
                   PositionIn(discovered, files[i])
                      < PositionIn(discovered, files[j])

C5_FirstFitDecreasing ==
    [][/\ (pc = "validate" /\ pc' = "scan") => SortedStable'
       /\ (pc = "scan" /\ pc' = "after") =>
             LET f == files[fileIdx]
             IN  /\ bucket_capacity - buckets[bucketIdx].size >= f.size
                 /\ \A k \in 1..(bucketIdx - 1) :
                       bucket_capacity - buckets[k].size < f.size
                 /\ buckets'[bucketIdx].contents
                       = Append(buckets[bucketIdx].contents, f)
                 /\ Len(buckets') = Len(buckets)
       /\ Len(buckets') # Len(buckets) =>
             LET f == files[fileIdx]
             IN  /\ \A k \in 1..Len(buckets) :
                       bucket_capacity - buckets[k].size < f.size
                 /\ buckets' = Append(buckets, buckets'[Len(buckets')])
                 /\ buckets'[Len(buckets')].contents = <<f>>
                 /\ buckets'[Len(buckets')].size = f.size
       /\ Packing => UNCHANGED files]_vars

C5_Witness ==
    /\ pc = "after"
    /\ bucketIdx >= 2
    /\ files # discovered
    /\ \E i, j \in 1..Len(files) : i < j /\ files[i].size = files[j].size

\* C6: a failed hard link does not keep any other file of the plan, in the
\* same bucket or a later one, from having its hard link attempted.
C6_EveryLinkAttempted ==
    (pc = "done" /\ ~dry_run) =>
        \A k \in 1..Len(buckets) : \A j \in 1..Len(buckets[k].contents) :
            \E a \in attempts : a.bucket = k /\ a.index = j

\* C7: once the capacity check has passed, no file system failure during
\* materialization keeps main from returning Ok.
C7_MaterializationNeverFatal ==
    (buckets # <<>> /\ ~dry_run) => pc # "panic"

\* C8: from_str of a string of decimal digits alone is that number.
C8_BareDigitsParse ==
    (pc # "config" /\ ParsesAsNumber(capacityArg)) =>
        /\ from_str(capacityArg).kind = "Ok"
        /\ pc # "panic"
        /\ bucket_capacity = DecimalValue(capacityArg)

\* C9: the target of every hard link of the k-th bucket lies under
\* <link-destination>/<k, three digits> and is not the source file itself.
C9_TargetUnderBucketDir ==
    \A a \in attempts :
        /\ IsPrefix(LinkDestination \o <<Pad3(a.bucket)>>, a.target)
        /\ a.target # a.source

\* C10: during and after packing the sizes of any two distinct buckets add
\* up to more than the capacity, and no bucket is without files.
C10_PairsOverflow ==
    /\ \A k, m \in 1..Len(buckets) :
          k # m => buckets[k].size + buckets[m].size > bucket_capacity
    /\ \A k \in 1..Len(buckets) : buckets[k].contents # <<>>

C10_Witness ==
    /\ Len(buckets) >= 3
    /\ \E k \in 1..Len(buckets) : 2 * buckets[k].size <= bucket_capacity

====
